---- MODULE Spec2Model ----
(***************************************************************************)
(* A model of the rustferret kernel's VGA text console (vga_buffer.rs),    *)
(* its global spin-locked WRITER, and the breakpoint trap handler          *)
(* (interrupts.rs) as driven by the entry point (main.rs).                 *)
(*                                                                         *)
(* The screen geometry is scaled down: the source has an 80 x 25 buffer,   *)
(* the model a BUFFER_WIDTH x BUFFER_HEIGHT one.  Texts are scaled with    *)
(* it.  Every formula is stated in terms of BUFFER_WIDTH / BUFFER_HEIGHT.  *)
(***************************************************************************)
EXTENDS Integers, Sequences, FiniteSets, TLC

VARIABLES
    writer,     \* the Writer behind WRITER: column_position, current_color, buffer (+ ghosts)
    pre,        \* ghost: the writer as it was when the last API call began
    arg,        \* ghost: the text (byte sequence) of the last API call
    op,         \* ghost: which API call ran last
    calls,      \* ghost: number of API calls made so far
    pc,         \* _start: the instruction the main flow executes next
    tests,      \* test_main: number of test cases run so far
    preempts,   \* ghost: number of traps delivered inside a _print call
    idtr,       \* the CPU's table register: "none" or "IDT"
    idt,        \* the entries of IDT, by vector
    idt_once,   \* lazy_static's Once guarding IDT
    loads,      \* ghost: how many times IDT.load() ran
    once,       \* lazy_static's Once guarding WRITER
    built,      \* ghost: how many times the Writer was constructed
    lock,       \* the spin::Mutex around the Writer: TRUE when held
    flow        \* per flow of control (main, handler): its _print call in progress

vars == <<writer, pre, arg, op, calls, pc, tests, preempts, idtr, idt, idt_once, loads,
         once, built, lock, flow>>
apivars == <<pre, arg, op>>
idtvars == <<idt, idt_once, loads>>
sysvars == <<pc, tests, preempts, idtr, idtvars, once, built, lock, flow>>

----------------------------------------------------------------------------
(* Bounds *)

BUFFER_HEIGHT == 3
BUFFER_WIDTH == 3
MaxCalls == 2
MaxTests == 2
MaxPreempts == 1
MaxLoads == 2

(* Longest text: long enough to wrap the line twice. *)
MaxLen == 2 * BUFFER_WIDTH + 1

----------------------------------------------------------------------------
(* vga_buffer.rs: colours and cells *)

Black == 0
Yellow == 14

ColorCode_new(foreground, background) == ((background * 16) % 256) + foreground

ScreenChar(ascii, color) == [ascii_char |-> ascii, color_code |-> color]

NEWLINE == 10
SPACE == 32
TILDE == 126
PLACEHOLDER == 254

Rows == 0 .. (BUFFER_HEIGHT - 1)
Cols == 0 .. (BUFFER_WIDTH - 1)

(* Ghost tag of a cell: who stored its present content.                    *)
(*   "hw"    the content the hardware had before the Writer wrote there    *)
(*   "blank" a blank stored by clear_row                                   *)
(*   other   a character stored by write_byte during call number n of by   *)
(* Further ghosts of the Writer: shifts and stores count the line shifts   *)
(* and the character stores of the call in progress; panicked records an   *)
(* index outside the buffer, on which the indexing of the source panics.   *)
Tag(by, n) == [by |-> by, n |-> n]
HwTag == Tag("hw", 0)
BlankTag == Tag("blank", 0)

(* The memory at VGAPOINTER is not initialised by the Writer: it holds     *)
(* whatever the firmware left, here either zeroes or a screen of 'X'.      *)
HwCells == {ScreenChar(0, 0), ScreenChar(88, 7)}
InitialBuffers == {[row \in Rows |-> [col \in Cols |-> c]] : c \in HwCells}

(* The Writer that lazy_static builds on first access of WRITER. *)
NewWriter(chars) ==
    [column_position |-> 0,
     current_color   |-> ColorCode_new(Yellow, Black),
     buffer          |-> chars,
     origin          |-> [row \in Rows |-> [col \in Cols |-> HwTag]],
     shifts          |-> 0,
     stores          |-> 0,
     panicked        |-> FALSE,
     call            |-> HwTag]

----------------------------------------------------------------------------
(* vga_buffer.rs: impl Writer *)

RECURSIVE clear_cols(_, _, _, _)
clear_cols(grid, row, col, blank) ==
    IF col >= BUFFER_WIDTH THEN grid
    ELSE clear_cols([grid EXCEPT ![row][col] = blank], row, col + 1, blank)

(* Mutant: the clearing loop starts at column 1. *)
clear_row_from1(w, row) ==
    [w EXCEPT !.buffer = clear_cols(w.buffer, row, 1, ScreenChar(SPACE, w.current_color)),
              !.origin = clear_cols(w.origin, row, 1, BlankTag)]

clear_row(w, row) ==
    [w EXCEPT !.buffer = clear_cols(w.buffer, row, 0, ScreenChar(SPACE, w.current_color)),
              !.origin = clear_cols(w.origin, row, 0, BlankTag)]

(* Mutant: the copy targets the row it reads, so no line moves up. *)
RECURSIVE move_lines_up_nowhere(_, _)
move_lines_up_nowhere(grid, row) ==
    IF row >= BUFFER_HEIGHT THEN grid
    ELSE move_lines_up_nowhere([grid EXCEPT ![row] = grid[row]], row + 1)

RECURSIVE move_lines_up(_, _)
move_lines_up(grid, row) ==
    IF row >= BUFFER_HEIGHT THEN grid
    ELSE move_lines_up([grid EXCEPT ![row - 1] = grid[row]], row + 1)

(* Mutant: the bottom row is not cleared after the lines moved up. *)
new_line_noclear(w) ==
    [w EXCEPT !.buffer = move_lines_up(w.buffer, 1),
              !.origin = move_lines_up(w.origin, 1),
              !.shifts = @ + 1,
              !.column_position = 0]

new_line(w) ==
    LET moved == [w EXCEPT !.buffer = move_lines_up(w.buffer, 1),
                           !.origin = move_lines_up(w.origin, 1),
                           !.shifts = @ + 1]
    IN [clear_row(moved, BUFFER_HEIGHT - 1) EXCEPT !.column_position = 0]

(* Mutant: the wrap test is > instead of >=. *)
write_byte_gt(w, byte) ==
    IF byte = NEWLINE THEN new_line(w)
    ELSE LET w1 == IF w.column_position > BUFFER_WIDTH THEN new_line(w) ELSE w
         IN IF w1.column_position \notin Cols
            THEN [w1 EXCEPT !.panicked = TRUE, !.column_position = @ + 1]
            ELSE [w1 EXCEPT
                    !.buffer[BUFFER_HEIGHT - 1][w1.column_position] =
                        ScreenChar(byte, w1.current_color),
                    !.origin[BUFFER_HEIGHT - 1][w1.column_position] = w1.call,
                    !.stores = @ + 1,
                    !.column_position = @ + 1]

(* Mutant: on a full line the byte is stored first and the lines shifted   *)
(* afterwards.                                                             *)
write_byte_shift_after(w, byte) ==
    IF byte = NEWLINE THEN new_line(w)
    ELSE IF w.column_position >= BUFFER_WIDTH
         THEN [new_line([w EXCEPT
                           !.buffer[BUFFER_HEIGHT - 1][0] =
                               ScreenChar(byte, w.current_color),
                           !.origin[BUFFER_HEIGHT - 1][0] = w.call,
                           !.stores = @ + 1])
                 EXCEPT !.column_position = 1]
         ELSE [w EXCEPT
                 !.buffer[BUFFER_HEIGHT - 1][w.column_position] =
                     ScreenChar(byte, w.current_color),
                 !.origin[BUFFER_HEIGHT - 1][w.column_position] = w.call,
                 !.stores = @ + 1,
                 !.column_position = @ + 1]

(* Mutant: the line is wrapped one column early. *)
write_byte_early(w, byte) ==
    IF byte = NEWLINE THEN new_line(w)
    ELSE LET w1 == IF w.column_position >= BUFFER_WIDTH - 1 THEN new_line(w) ELSE w
         IN IF w1.column_position \notin Cols
            THEN [w1 EXCEPT !.panicked = TRUE]
            ELSE [w1 EXCEPT
                    !.buffer[BUFFER_HEIGHT - 1][w1.column_position] =
                        ScreenChar(byte, w1.current_color),
                    !.origin[BUFFER_HEIGHT - 1][w1.column_position] = w1.call,
                    !.stores = @ + 1,
                    !.column_position = @ + 1]

write_byte(w, byte) ==
    IF byte = NEWLINE THEN new_line(w)
    ELSE LET w1 == IF w.column_position >= BUFFER_WIDTH THEN new_line(w) ELSE w
         IN IF w1.column_position \notin Cols
            THEN [w1 EXCEPT !.panicked = TRUE]
            ELSE [w1 EXCEPT
                    !.buffer[BUFFER_HEIGHT - 1][w1.column_position] =
                        ScreenChar(byte, w1.current_color),
                    !.origin[BUFFER_HEIGHT - 1][w1.column_position] = w1.call,
                    !.stores = @ + 1,
                    !.column_position = @ + 1]

(* Mutant: the printable range ends one byte late (0x7F passes). *)
rendered_del(byte) ==
    IF (byte >= SPACE /\ byte <= TILDE + 1) \/ byte = NEWLINE THEN byte ELSE PLACEHOLDER

(* The match of write_string: what is handed to write_byte for a byte. *)
rendered(byte) ==
    IF (byte >= SPACE /\ byte <= TILDE) \/ byte = NEWLINE THEN byte ELSE PLACEHOLDER

(* Mutant: bytes outside the printable range are skipped, not replaced. *)
RECURSIVE write_string_skip(_, _)
write_string_skip(w, s) ==
    IF s = <<>> THEN w
    ELSE IF rendered(Head(s)) = Head(s)
         THEN write_string_skip(write_byte(w, Head(s)), Tail(s))
         ELSE write_string_skip(w, Tail(s))

(* Mutant: a call that ends on a full line wraps it before returning. *)
RECURSIVE write_string_bytes(_, _)
write_string_bytes(w, s) ==
    IF s = <<>> THEN w
    ELSE write_string_bytes(write_byte(w, rendered(Head(s))), Tail(s))

write_string_eager(w, s) ==
    LET r == write_string_bytes(w, s)
    IN IF s # <<>> /\ r.column_position >= BUFFER_WIDTH THEN new_line(r) ELSE r

RECURSIVE write_string(_, _)
write_string(w, s) ==
    IF s = <<>> THEN w
    ELSE write_string(write_byte(w, rendered(Head(s))), Tail(s))

(* Ghost: start of an API call: reset the per-call counters, set the tag. *)
Begin(w, tag) == [w EXCEPT !.shifts = 0, !.stores = 0, !.call = tag]

----------------------------------------------------------------------------
(* Inputs *)

(* write_byte takes any u8. *)
Bytes == {1, 10, 31, 32, 65, 126, 127, 128, 254, 255}

(* write_string takes a &str, which is valid UTF-8: its bytes are ASCII    *)
(* (0x00..0x7F) or belong to a multi-byte sequence (never 0xFE or 0xFF).   *)
AsciiBytes == {1, 10, 31, 32, 65, 126, 127}
EAcute == <<195, 169>>

(* L distinct printable letters: "A", "AB", "ABC", ... *)
Letters(L) == [i \in 1 .. L |-> 64 + i]

Texts ==
    {<<b>> : b \in AsciiBytes}
    \cup {Letters(L) : L \in 0 .. MaxLen}
    \cup {Letters(L) \o <<NEWLINE>> : L \in 0 .. MaxLen}
    \cup {<<65, b, 66>> : b \in AsciiBytes}
    \cup {EAcute, <<65>> \o EAcute}

----------------------------------------------------------------------------
(* The Writer alone, driven through its public methods. *)

(* interrupts.rs: the exception table *)

NumVectors == 256
BREAKPOINT == 3
Vectors == 0 .. (NumVectors - 1)

(* InterruptDescriptorTable::new(): no entry is bound. *)
EmptyTable == [v \in Vectors |-> "unbound"]

(* Mutant: the handler is set on the debug entry (vector 1). *)
IDT_debug == [EmptyTable EXCEPT ![1] = "breakpoint_handler"]

(* The initialiser of IDT: new(), then breakpoint.set_handler_fn. *)
IDT == [EmptyTable EXCEPT ![BREAKPOINT] = "breakpoint_handler"]

Idle == [at |-> "idle", text |-> <<>>, i |-> 0, res |-> "Ok"]

InitW ==
    /\ \E chars \in InitialBuffers : writer = NewWriter(chars)
    /\ pre = writer
    /\ arg = <<>>
    /\ op = "new"
    /\ calls = 0
    /\ pc = "loop"
    /\ tests = 0
    /\ preempts = 0
    /\ idtr = "none"
    /\ idt = EmptyTable
    /\ idt_once = "INCOMPLETE"
    /\ loads = 0
    /\ once = "COMPLETE"
    /\ built = 1
    /\ lock = FALSE
    /\ flow = [main |-> Idle, handler |-> Idle]

write_string_call ==
    /\ calls < MaxCalls
    /\ \E s \in Texts :
         /\ pre' = Begin(writer, Tag("write_string", calls + 1))
         /\ writer' = write_string(pre', s)
         /\ arg' = s
    /\ op' = "write_string"
    /\ calls' = calls + 1
    /\ UNCHANGED sysvars

write_byte_call ==
    /\ calls < MaxCalls
    /\ \E b \in Bytes :
         /\ pre' = Begin(writer, Tag("write_byte", calls + 1))
         /\ writer' = write_byte(pre', b)
         /\ arg' = <<b>>
    /\ op' = "write_byte"
    /\ calls' = calls + 1
    /\ UNCHANGED sysvars

NextW == write_string_call \/ write_byte_call

SpecW == InitW /\ [][NextW]_vars

----------------------------------------------------------------------------
(* The Writer driven by println! alone, as in test_println_many. *)

MaxLines == BUFFER_HEIGHT + 2

Lines == {Letters(L) : L \in {0, 1, BUFFER_WIDTH, BUFFER_WIDTH + 1}}

(* println!(line): print!("{}\n", line), which reaches write_string. *)
println(w, line) == write_string(w, line \o <<NEWLINE>>)

println_call ==
    /\ calls < MaxLines
    /\ \E line \in Lines :
         /\ pre' = Begin(writer, Tag("println", calls + 1))
         /\ writer' = println(pre', line)
         /\ arg' = line
    /\ op' = "println"
    /\ calls' = calls + 1
    /\ UNCHANGED sysvars

NextLines == println_call

SpecLines == InitW /\ [][NextLines]_vars

----------------------------------------------------------------------------
(* The kernel: _start (main.rs), _print and WRITER (vga_buffer.rs), the    *)
(* breakpoint handler (interrupts.rs).  One CPU: while the handler runs,   *)
(* the main flow is suspended.  A _print call advances one byte at a time. *)

Flows == {"main", "handler"}
Other(f) == IF f = "main" THEN "handler" ELSE "main"

(* println!("Hello World{}", "!") *)
HelloText == <<72, 33, NEWLINE>>

(* Mutant: the handler uses print!, its text does not end the line. *)
HandlerTexts_noeol == {<<69, NEWLINE, 70>>}

(* println!("EXCEPTION - BREAKPOINT:\n{:#?}", stack_frame): a heading line *)
(* and the lines of the frame, which depend on the frame.                  *)
HandlerTexts == {<<69, NEWLINE, 70, NEWLINE>>,
                 <<69, NEWLINE, 70, 71, NEWLINE, 72, NEWLINE>>}

(* The lines the test cases print with println!. *)
TestLines == {<<65, NEWLINE>>, Letters(BUFFER_WIDTH + 1) \o <<NEWLINE>>}

(* Texts of print!, which appends no newline. *)
PrintTexts == {<<65>>}

(* Ghost: the macro and flow a call comes from. *)
MacroOf(f, text) ==
    IF text # <<>> /\ text[Len(text)] = NEWLINE THEN f \o ".println" ELSE f \o ".print"

(* The flow the CPU is executing. *)
Running(f) ==
    IF f = "handler" THEN flow.handler.at # "idle"
    ELSE flow.handler.at = "idle"

Init ==
    /\ \E chars \in InitialBuffers :
         writer = [NewWriter(chars) EXCEPT !.current_color = 0]
    /\ pre = writer
    /\ arg = <<>>
    /\ op = "boot"
    /\ calls = 0
    /\ pc = "hello"
    /\ tests = 0
    /\ preempts = 0
    /\ idtr = "none"
    /\ idt = EmptyTable
    /\ idt_once = "INCOMPLETE"
    /\ loads = 0
    /\ once = "INCOMPLETE"
    /\ built = 0
    /\ lock = FALSE
    /\ flow = [main |-> Idle, handler |-> Idle]

(* Entering _print(args): the next step dereferences WRITER. *)
Enter(f, text) == [flow EXCEPT ![f] = [at |-> "deref", text |-> text, i |-> 0, res |-> "Ok"]]

(* The CPU delivers vector 3: breakpoint_handler starts its println!. *)
Deliver == \E text \in HandlerTexts : flow' = Enter("handler", text)

(* main.rs:12 *)
(* Mutant: _start goes from its first println! straight to int3. *)
start_println_noinit ==
    /\ pc = "hello" /\ Running("main") /\ flow.main.at = "idle"
    /\ flow' = Enter("main", HelloText)
    /\ pc' = "int3"
    /\ UNCHANGED <<writer, apivars, preempts, calls, tests, idtr, idtvars, once, built, lock>>

start_println ==
    /\ pc = "hello" /\ Running("main") /\ flow.main.at = "idle"
    /\ flow' = Enter("main", HelloText)
    /\ pc' = "init"
    /\ UNCHANGED <<writer, apivars, preempts, calls, tests, idtr, idtvars, once, built, lock>>

(* The CPU finds a handler for the breakpoint exception: the table      *)
(* register points at IDT and its breakpoint entry is bound.             *)
Handled == idtr = "IDT" /\ idt[BREAKPOINT] = "breakpoint_handler"

(* interrupts.rs: init_idt() is IDT.load(): the first access runs the    *)
(* initialiser of IDT, every access loads the same table.                *)
init_idt ==
    /\ idt' = IF idt_once = "INCOMPLETE" THEN IDT ELSE idt
    /\ idt_once' = "COMPLETE"
    /\ idtr' = "IDT"
    /\ loads' = loads + 1

(* main.rs:13: rustferret::init(), taken to call init_idt (system         *)
(* initialization loads the table once, before any trap).                  *)
init ==
    /\ pc = "init" /\ Running("main") /\ flow.main.at = "idle"
    /\ init_idt
    /\ pc' = "int3"
    /\ UNCHANGED <<writer, apivars, preempts, calls, tests, once, built, lock, flow>>

(* main.rs:14: the trap returns to the instruction after int3 *)
int3 ==
    /\ pc = "int3" /\ Running("main") /\ flow.main.at = "idle"
    /\ IF Handled
       THEN Deliver /\ pc' = "test_main"
       ELSE flow' = flow /\ pc' = "fault"
    /\ UNCHANGED <<writer, apivars, preempts, calls, tests, idtr, idtvars, once, built, lock>>

(* test_main(): a test case that prints a line *)
test_println ==
    /\ pc = "test_main" /\ Running("main") /\ flow.main.at = "idle"
    /\ tests < MaxTests
    /\ \E text \in TestLines : flow' = Enter("main", text)
    /\ tests' = tests + 1
    /\ UNCHANGED <<writer, apivars, preempts, calls, pc, idtr, idtvars, once, built, lock>>

(* print!: a call of _print whose text does not end the line *)
print_call ==
    /\ pc = "test_main" /\ Running("main") /\ flow.main.at = "idle"
    /\ tests < MaxTests
    /\ \E text \in PrintTexts : flow' = Enter("main", text)
    /\ tests' = tests + 1
    /\ UNCHANGED <<writer, apivars, preempts, calls, pc, idtr, idtvars, once, built, lock>>

(* test_main(): test_breakpoint *)
test_breakpoint ==
    /\ pc = "test_main" /\ Running("main") /\ flow.main.at = "idle"
    /\ tests < MaxTests
    /\ IF Handled
       THEN Deliver /\ pc' = pc
       ELSE flow' = flow /\ pc' = "fault"
    /\ tests' = tests + 1
    /\ UNCHANGED <<writer, apivars, preempts, calls, idtr, idtvars, once, built, lock>>

(* main.rs:19: loop {} *)
halt_loop ==
    /\ pc = "test_main" /\ Running("main") /\ flow.main.at = "idle"
    /\ pc' = "loop"
    /\ UNCHANGED <<writer, apivars, preempts, calls, tests, idtr, idtvars, once, built, lock, flow>>

(* Mutant: no run-once guard, every access constructs the Writer. *)
print_deref_always(f) ==
    /\ Running(f) /\ flow[f].at = "deref"
    /\ once' = "RUNNING" /\ flow' = [flow EXCEPT ![f].at = "build"]
    /\ UNCHANGED <<writer, apivars, preempts, calls, pc, tests, idtr, idtvars, built, lock>>

(* WRITER's Deref (lazy_static): the first access claims the construction, *)
(* an access during the construction waits, a later one goes on.           *)
print_deref(f) ==
    /\ Running(f) /\ flow[f].at = "deref"
    /\ once # "RUNNING"
    /\ IF once = "INCOMPLETE"
       THEN once' = "RUNNING" /\ flow' = [flow EXCEPT ![f].at = "build"]
       ELSE once' = once /\ flow' = [flow EXCEPT ![f].at = "lock"]
    /\ UNCHANGED <<writer, apivars, preempts, calls, pc, tests, idtr, idtvars, built, lock>>

(* The initialiser of WRITER: Mutex::new(Writer { 0, Yellow on Black, buffer }) *)
print_build(f) ==
    /\ Running(f) /\ flow[f].at = "build"
    /\ writer' = [NewWriter(writer.buffer) EXCEPT !.origin = writer.origin]
    /\ once' = "COMPLETE"
    /\ built' = built + 1
    /\ flow' = [flow EXCEPT ![f].at = "lock"]
    /\ UNCHANGED <<apivars, preempts, calls, pc, tests, idtr, idtvars, lock>>

(* Mutant: the lock is taken but never marked as held. *)
print_lock_unset(f) ==
    /\ Running(f) /\ flow[f].at = "lock"
    /\ lock = FALSE
    /\ lock' = lock
    /\ flow' = [flow EXCEPT ![f].at = "write"]
    /\ writer' = Begin(writer, Tag(MacroOf(f, flow[f].text), calls + 1))
    /\ calls' = calls + 1
    /\ UNCHANGED <<apivars, preempts, pc, tests, idtr, idtvars, once, built>>

(* Mutant: the lock is taken whether or not it is held. *)
print_lock_reentrant(f) ==
    /\ Running(f) /\ flow[f].at = "lock"
    /\ lock' = TRUE
    /\ flow' = [flow EXCEPT ![f].at = "write"]
    /\ writer' = Begin(writer, Tag(MacroOf(f, flow[f].text), calls + 1))
    /\ calls' = calls + 1
    /\ UNCHANGED <<apivars, preempts, pc, tests, idtr, idtvars, once, built>>

(* WRITER.lock(): taken only when free *)
print_lock(f) ==
    /\ Running(f) /\ flow[f].at = "lock"
    /\ lock = FALSE
    /\ lock' = TRUE
    /\ flow' = [flow EXCEPT ![f].at = "write"]
    /\ writer' = Begin(writer, Tag(MacroOf(f, flow[f].text), calls + 1))
    /\ calls' = calls + 1
    /\ UNCHANGED <<apivars, preempts, pc, tests, idtr, idtvars, once, built>>

(* Mutant: write_str reports an error for a string with a newline. *)
write_str_err(w, s) ==
    [writer |-> write_string(w, s),
     result |-> IF \E k \in 1 .. Len(s) : s[k] = NEWLINE THEN "Err" ELSE "Ok"]

(* fmt::Write::write_str: write_string(s), then Ok(()) *)
write_str(w, s) == [writer |-> write_string(w, s), result |-> "Ok"]

(* write_fmt(args): write_str on one byte of the text; the first Err     *)
(* ends the formatting.                                                  *)
print_write(f) ==
    /\ Running(f) /\ flow[f].at = "write"
    /\ flow[f].res = "Ok"
    /\ flow[f].i < Len(flow[f].text)
    /\ LET r == write_str(writer, <<flow[f].text[flow[f].i + 1]>>)
       IN /\ writer' = r.writer
          /\ flow' = [flow EXCEPT ![f].i = @ + 1, ![f].res = r.result]
    /\ UNCHANGED <<apivars, preempts, calls, pc, tests, idtr, idtvars, once, built, lock>>

(* Mutant: the guard is leaked, the lock stays held after the call. *)
print_return_keep(f) ==
    /\ Running(f) /\ flow[f].at = "write"
    /\ flow[f].i = Len(flow[f].text)
    /\ lock' = lock
    /\ flow' = [flow EXCEPT ![f] = [@ EXCEPT !.at = "idle"]]
    /\ UNCHANGED <<writer, apivars, preempts, calls, pc, tests, idtr, idtvars, once, built>>

(* .unwrap(): on Ok(()) the guard is dropped at the end of the statement  *)
(* and the call returns (for the handler the return resumes the main     *)
(* flow); on Err it panics, the call never returns.                      *)
print_return(f) ==
    /\ Running(f) /\ flow[f].at = "write"
    /\ flow[f].i = Len(flow[f].text) \/ flow[f].res = "Err"
    /\ IF flow[f].res = "Ok"
       THEN /\ lock' = FALSE
            /\ flow' = [flow EXCEPT ![f] = [@ EXCEPT !.at = "idle"]]
       ELSE /\ lock' = lock
            /\ flow' = [flow EXCEPT ![f] = [@ EXCEPT !.at = "panicked"]]
    /\ UNCHANGED <<writer, apivars, preempts, calls, pc, tests, idtr, idtvars, once, built>>

(* The spin loops of Mutex::lock and Once::call_once. *)
spin(f) ==
    /\ Running(f)
    /\ \/ flow[f].at = "lock" /\ lock = TRUE
       \/ flow[f].at = "deref" /\ once = "RUNNING"
    /\ UNCHANGED vars

(* A breakpoint trap delivered while the main flow is inside _print. *)
trap_in_print ==
    /\ Running("main") /\ flow.main.at # "idle"
    /\ Handled
    /\ preempts < MaxPreempts
    /\ Deliver
    /\ preempts' = preempts + 1
    /\ UNCHANGED <<writer, apivars, calls, pc, tests, idtr, idtvars, once, built, lock>>

Step ==
    \/ start_println
    \/ init
    \/ int3
    \/ test_println
    \/ print_call
    \/ test_breakpoint
    \/ halt_loop
    \/ \E f \in Flows : print_deref(f)
    \/ \E f \in Flows : print_build(f)
    \/ \E f \in Flows : print_lock(f)
    \/ \E f \in Flows : print_write(f)
    \/ \E f \in Flows : print_return(f)

(* The program as written: traps come from its int3 instructions only. *)
Next == Step
Spec == Init /\ [][Next]_vars

(* The CPU always executes the next instruction. *)
FairSpec == Spec /\ WF_vars(Next)

(* With traps that arrive while a _print call is under way. *)
NextPreempt ==
    \/ Step
    \/ trap_in_print
    \/ \E f \in Flows : spin(f)
SpecPreempt == Init /\ [][NextPreempt]_vars

(* The same, the CPU always executing the next instruction of the flow   *)
(* that runs; a trap inside _print may or may not arrive.                *)
FairPreempt == SpecPreempt /\ WF_vars(Step)

(* interrupts.rs:13: init_idt is public; a further call of it after      *)
(* system initialization.                                                *)
init_idt_call ==
    /\ pc = "test_main" /\ Running("main") /\ flow.main.at = "idle"
    /\ loads < MaxLoads
    /\ init_idt
    /\ UNCHANGED <<writer, apivars, preempts, calls, pc, tests, once, built, lock, flow>>

(* The program with repeated calls of init_idt. *)
NextIdt ==
    \/ Step
    \/ init_idt_call
SpecIdt == Init /\ [][NextIdt]_vars

----------------------------------------------------------------------------
(* Vocabulary of the properties *)

Printable(b) == b \in 32 .. 126
NoNewline(s) == \A i \in 1 .. Len(s) : s[i] # 10
AllPrintable(s) == \A i \in 1 .. Len(s) : Printable(s[i])
CeilDiv(a, b) == (a + b - 1) \div b
BottomRow == BUFFER_HEIGHT - 1
IsBlank(c) == c.ascii_char = 32

(* The last call was write_string(line \o "\n"), i.e. println!(line). *)
WasPrintln == op = "write_string" /\ Len(arg) >= 1 /\ arg[Len(arg)] = 10
LineOf(s) == SubSeq(s, 1, Len(s) - 1)

----------------------------------------------------------------------------
(* C5: read-back round trip.  A printable line of at most BUFFER_WIDTH     *)
(* bytes, written from column 0 and followed by a newline, is read back    *)
(* from row BUFFER_HEIGHT-2 byte for byte at its column offsets; the cells *)
(* of that row after the line are the cells the bottom row had before; the *)
(* cursor is at column 0 of a bottom row of blanks.                        *)
C5_ReadBack ==
    (/\ WasPrintln
     /\ AllPrintable(LineOf(arg))
     /\ Len(LineOf(arg)) <= BUFFER_WIDTH
     /\ pre.column_position = 0)
    => /\ \A i \in 0 .. (Len(arg) - 2) :
            writer.buffer[BUFFER_HEIGHT - 2][i].ascii_char = arg[i + 1]
       /\ \A c \in Cols :
            c >= Len(arg) - 1 =>
                writer.buffer[BUFFER_HEIGHT - 2][c] = pre.buffer[BottomRow][c]
       /\ writer.column_position = 0
       /\ \A c \in Cols : IsBlank(writer.buffer[BottomRow][c])

C5_Witness ==
    /\ WasPrintln
    /\ calls = 2
    /\ pre.column_position = 0
    /\ LineOf(arg) = Letters(BUFFER_WIDTH - 1)
    /\ IsBlank(pre.buffer[BottomRow][BUFFER_WIDTH - 1])
    /\ writer.buffer[BUFFER_HEIGHT - 2][0].ascii_char = 65

----------------------------------------------------------------------------
(* C6: placeholder substitution.  A byte outside 0x20..0x7E other than     *)
(* newline that goes through write_string is stored as 0xFE: every cell    *)
(* stored by a write_string call holds a code in 0x20..0x7E or 0xFE, and   *)
(* the cell a byte of the last call landed in holds 0xFE unless the byte   *)
(* is printable.                                                           *)
C6_Placeholder ==
    /\ \A row \in Rows : \A col \in Cols :
          writer.origin[row][col].by = "write_string" =>
              \/ Printable(writer.buffer[row][col].ascii_char)
              \/ writer.buffer[row][col].ascii_char = 254
    /\ (/\ op = "write_string"
        /\ NoNewline(arg)
        /\ pre.column_position + Len(arg) <= BUFFER_WIDTH)
       => \A i \in 1 .. Len(arg) :
            LET cell == writer.buffer[BottomRow][pre.column_position + i - 1]
            IN IF Printable(arg[i]) THEN cell.ascii_char = arg[i]
               ELSE cell.ascii_char = 254 /\ cell.ascii_char # arg[i]

C6_Witness ==
    /\ op = "write_string"
    /\ arg = <<65, 127, 66>>
    /\ pre.column_position = 0
    /\ writer.buffer[BottomRow][1].ascii_char = 254
    /\ writer.origin[BottomRow][1].by = "write_string"

----------------------------------------------------------------------------
(* C7: scroll count.                                                       *)

(* The last call wrote a text without newline bytes from column 0. *)
WroteRunFromColumn0 ==
    op = "write_string" /\ NoNewline(arg) /\ pre.column_position = 0

(* C7 as stated: exactly ceil(L / W) - 1 line shifts for every L, and L    *)
(* characters stored.                                                      *)
C7_AsStated ==
    WroteRunFromColumn0
    => /\ writer.shifts = CeilDiv(Len(arg), BUFFER_WIDTH) - 1
       /\ writer.stores = Len(arg)

(* C7 as amended: writing a text of L >= 1 bytes without newline from      *)
(* column 0 shifts the lines exactly ceil(L / W) - 1 times, an empty text  *)
(* shifts nothing, and every one of the L characters is stored in a cell.  *)
C7_ScrollCount ==
    WroteRunFromColumn0
    => /\ Len(arg) >= 1 => writer.shifts = CeilDiv(Len(arg), BUFFER_WIDTH) - 1
       /\ Len(arg) = 0 => writer.shifts = 0
       /\ writer.stores = Len(arg)

C7_Witness ==
    /\ WroteRunFromColumn0
    /\ Len(arg) = 2 * BUFFER_WIDTH + 1
    /\ writer.shifts = 2
    /\ writer.stores = Len(arg)

----------------------------------------------------------------------------
(* C8: final cursor position.                                              *)

(* C8 as stated: the column is L mod W, or W when W divides L. *)
C8_AsStated ==
    WroteRunFromColumn0
    => writer.column_position =
         IF Len(arg) % BUFFER_WIDTH = 0 THEN BUFFER_WIDTH ELSE Len(arg) % BUFFER_WIDTH

(* C8 as amended: after writing a text of L >= 1 bytes without newline     *)
(* from column 0 the column is L mod W, or W when W divides L; after an    *)
(* empty text the column is still 0.                                       *)
C8_FinalColumn ==
    WroteRunFromColumn0
    => writer.column_position =
         IF Len(arg) = 0 THEN 0
         ELSE IF Len(arg) % BUFFER_WIDTH = 0 THEN BUFFER_WIDTH
         ELSE Len(arg) % BUFFER_WIDTH

C8_Witness ==
    /\ WroteRunFromColumn0
    /\ Len(arg) = 2 * BUFFER_WIDTH
    /\ writer.column_position = BUFFER_WIDTH


----------------------------------------------------------------------------
(* Vocabulary of the kernel's properties *)

(* f is between the acquisition and the release of the lock in _print. *)
InCS(f) == flow[f].at = "write"
HandlerActive == flow.handler.at # "idle"
NonNewlines(s) == Cardinality({i \in 1 .. Len(s) : s[i] # 10})
RowOwners(r) == {writer.origin[r][c].by : c \in Cols}
MainMacros == {"main.print", "main.println"}
HandlerMacros == {"handler.print", "handler.println"}

----------------------------------------------------------------------------
(* C1: mutual exclusion of console writes.  The main flow and the handler  *)
(* are never both between lock acquisition and release; a step that        *)
(* changes the buffer or the column is a step of the one call that holds   *)
(* the lock, taken while the other flow holds nothing and stands still.    *)
C1_MutualExclusion ==
    [][/\ ~(InCS("main") /\ InCS("handler"))
       /\ ~(flow'.main.at = "write" /\ flow'.handler.at = "write")
       /\ (writer'.buffer # writer.buffer
             \/ writer'.column_position # writer.column_position)
          => \E f \in Flows :
               /\ InCS(f) /\ ~InCS(Other(f))
               /\ lock = TRUE
               /\ writer.call.by = MacroOf(f, flow[f].text)
               /\ flow'[Other(f)] = flow[Other(f)]]_vars

C1_Witness ==
    /\ flow.main.at = "lock"
    /\ InCS("handler")
    /\ flow.handler.i >= 1
    /\ lock = TRUE

----------------------------------------------------------------------------
(* C2: re-entrancy hazard.  Once a trap has fired while the main flow      *)
(* holds the console lock, that stays so for ever: the lock stays held,    *)
(* the handler never gets past the lock, the main flow does not move, and  *)
(* no cell and no column changes.                                          *)
TrapWhileLocked == InCS("main") /\ HandlerActive

C2_Hazard ==
    [][TrapWhileLocked
       => /\ lock = TRUE
          /\ flow'.main = flow.main /\ flow'.main.at = "write"
          /\ flow'.handler.at \in {"deref", "lock"}
          /\ flow'.handler.i = 0
          /\ lock' = TRUE
          /\ pc' = pc
          /\ writer' = writer]_vars

C2_Witness ==
    /\ TrapWhileLocked
    /\ flow.handler.at = "lock"
    /\ flow.main.i >= 1
    /\ flow.main.i < Len(flow.main.text)

----------------------------------------------------------------------------
(* C3: the breakpoint trap resumes.  A trap raised by an int3 of the       *)
(* program leaves the main flow at the instruction after it; the main flow *)
(* does not move while the handler runs; the handler returns only after    *)
(* every byte of its text went to the console; and it always returns.      *)
C3_TrapResumes ==
    /\ [][/\ (~HandlerActive /\ flow'.handler.at # "idle")
             => /\ pc' = (IF pc = "int3" THEN "test_main" ELSE pc)
                /\ flow'.main = flow.main
          /\ HandlerActive => (pc' = pc /\ flow'.main = flow.main /\ tests' = tests)
          /\ (HandlerActive /\ flow'.handler.at = "idle")
             => /\ flow.handler.i = Len(flow.handler.text)
                /\ writer.call.by = "handler.println"
                /\ writer.stores = NonNewlines(flow.handler.text)
                /\ writer' = writer
                /\ lock' = FALSE]_vars
    /\ (HandlerActive ~> ~HandlerActive)

C3_Witness ==
    /\ pc = "test_main" /\ tests = 0
    /\ ~HandlerActive
    /\ flow.handler.text \in HandlerTexts
    /\ flow.handler.i = Len(flow.handler.text)
    /\ writer.call.by = "handler.println"
    /\ lock = FALSE

----------------------------------------------------------------------------
(* C4: rows are not shared between the flows.                              *)

(* C4 as stated: no row holds bytes of a main-flow call and bytes of a     *)
(* handler call.                                                           *)
C4_AsStated ==
    \A r \in Rows :
        RowOwners(r) \cap MainMacros = {} \/ RowOwners(r) \cap HandlerMacros = {}

(* C4 as amended: no row holds bytes of a main-flow call whose text ends   *)
(* with a newline (println!) and bytes of a handler call.                  *)
C4_NoSharedRow ==
    \A r \in Rows :
        "main.println" \notin RowOwners(r) \/ RowOwners(r) \cap HandlerMacros = {}

C4_Witness ==
    /\ preempts = 1
    /\ ~HandlerActive
    /\ InCS("main") /\ flow.main.i = BUFFER_WIDTH + 1
    /\ "handler.println" \in RowOwners(BUFFER_HEIGHT - 3)
    /\ "main.println" \in RowOwners(BUFFER_HEIGHT - 2)
    /\ "main.println" \in RowOwners(BottomRow)

----------------------------------------------------------------------------
OnlyBreakpoint(t) ==
    /\ DOMAIN t = Vectors
    /\ Cardinality(DOMAIN t) = 256
    /\ {v \in DOMAIN t : t[v] # "unbound"} = {3}
    /\ t[3] = "breakpoint_handler"

(* C11: exception table contents.  Once IDT is constructed, exactly one  *)
(* of its 256 entries is bound: vector 3, to breakpoint_handler; no step *)
(* of the program, a repeated call of init_idt included, changes an      *)
(* entry or runs the initialiser again.                                  *)
C11_TableContents ==
    [][/\ idt_once' = "COMPLETE" => OnlyBreakpoint(idt')
       /\ idt_once = "COMPLETE"
          => /\ OnlyBreakpoint(idt)
             /\ idt' = idt
             /\ idt_once' = "COMPLETE"]_vars

C11_Witness ==
    /\ idt_once = "COMPLETE"
    /\ loads = MaxLoads
    /\ idtr = "IDT"
    /\ idt[BREAKPOINT] = "breakpoint_handler"
    /\ idt[BREAKPOINT - 1] = "unbound"

(* A breakpoint trap enters its handler in this step. *)
TrapTaken == flow.handler.at = "idle" /\ flow'.handler.at # "idle"

(* C12: ordering of the table load.  The program loads the table exactly *)
(* once, and before its first trap-triggering instruction: whenever a    *)
(* breakpoint is triggered the table has been loaded once and binds the  *)
(* breakpoint vector, and no breakpoint is ever triggered while the      *)
(* table is not loaded.                                                  *)
C12_LoadedBeforeTrap ==
    [][/\ loads' <= 1
       /\ pc' # "fault"
       /\ pc' \in {"test_main", "loop"} => loads' = 1 /\ idtr' = "IDT"
       /\ TrapTaken => loads = 1 /\ Handled
       /\ loads = 1 => idtr' = "IDT" /\ idt' = idt]_vars

C12_Witness ==
    /\ loads = 1
    /\ pc = "test_main" /\ tests = MaxTests
    /\ flow.handler.at = "write" /\ flow.handler.i = 1
    /\ flow.main.text = HelloText

(* The call of flow f returns in this step. *)
Returns(f) == InCS(f) /\ flow'[f].at = "idle"

(* C13: console write failure policy.  A failed write makes the call     *)
(* abort: it writes nothing more and never returns.  write_str reports   *)
(* Ok for every string, so no call reaches the abort path, and a call    *)
(* that holds the lock returns only after every byte of its text has     *)
(* been written: one store per non-newline byte, one line shift per      *)
(* newline at least.                                                     *)
C13_WritesAllOrAborts ==
    [][\A f \in Flows :
        /\ flow[f].res = "Err"
           => /\ writer' = writer
              /\ flow'[f].at \in {"write", "panicked"}
        /\ flow'[f].res = "Ok"
        /\ flow'[f].at # "panicked"
        /\ Returns(f)
           => /\ flow[f].i = Len(flow[f].text)
              /\ writer.stores = NonNewlines(flow[f].text)
              /\ writer.shifts >= Len(flow[f].text) - NonNewlines(flow[f].text)
              /\ lock /\ ~lock']_vars

C13_Witness ==
    /\ flow.handler.at = "idle"
    /\ flow.handler.text \in HandlerTexts
    /\ flow.handler.i = Len(flow.handler.text)
    /\ flow.handler.res = "Ok"
    /\ writer.call.by = "handler.println"
    /\ writer.stores = NonNewlines(flow.handler.text)
    /\ ~lock

(* C19: lock release.  The lock is held exactly while one call is        *)
(* between its lock() and its return: it is free whenever no call is in  *)
(* progress, taken and released by the same call.  Hence, in an          *)
(* execution where no trap fires while the lock is held, every print     *)
(* call of either flow eventually holds the lock and then completes.     *)
C19_LockReleased ==
    /\ [](lock <=> \E f \in Flows : InCS(f))
    /\ []((\A f \in Flows : flow[f].at = "idle") => ~lock)
    /\ ([]~TrapWhileLocked)
       => \A f \in Flows :
            /\ (flow[f].at \in {"deref", "lock"}) ~> (InCS(f) /\ lock)
            /\ InCS(f) ~> (flow[f].at = "idle" /\ flow[f].i = Len(flow[f].text) /\ ~lock)

C19_Witness ==
    /\ preempts >= 1
    /\ \A f \in Flows : flow[f].at = "idle" /\ flow[f].i = Len(flow[f].text)
    /\ flow.main.text \in TestLines
    /\ flow.handler.text \in HandlerTexts
    /\ tests = 1
    /\ calls = 4
    /\ ~lock

----------------------------------------------------------------------------
(* Vocabulary of the Writer's frame properties *)

(* The last call was write_byte(b) with b not a newline. *)
WroteOneByte == op = "write_byte" /\ arg[1] # 10

(* The buffer differs from the one before the call at most in cell (r, c). *)
SameBufferExcept(r, c) ==
    \A row \in Rows : \A col \in Cols :
        (row # r \/ col # c) => writer.buffer[row][col] = pre.buffer[row][col]

----------------------------------------------------------------------------
(* C14: wrap before write.  write_byte of a non-newline byte on a full     *)
(* line (column >= width) shifts the lines first: the byte is at column 0  *)
(* of the bottom row, the rest of the bottom row is blank, the line that   *)
(* was full is intact on row BUFFER_HEIGHT-2, and the column is 1.         *)
C14_WrapBeforeWrite ==
    (WroteOneByte /\ pre.column_position >= BUFFER_WIDTH)
    => /\ writer.shifts = 1
       /\ writer.buffer[BottomRow][0] = ScreenChar(arg[1], pre.current_color)
       /\ \A c \in Cols : c >= 1 => IsBlank(writer.buffer[BottomRow][c])
       /\ writer.buffer[BUFFER_HEIGHT - 2] = pre.buffer[BottomRow]
       /\ writer.column_position = 1

C14_Witness ==
    /\ WroteOneByte /\ arg = <<126>>
    /\ pre.column_position = BUFFER_WIDTH
    /\ pre.buffer[BottomRow][BUFFER_WIDTH - 1].ascii_char = 64 + BUFFER_WIDTH
    /\ writer.buffer[BUFFER_HEIGHT - 2][0].ascii_char = 65
    /\ writer.buffer[BottomRow][0].ascii_char = 126

----------------------------------------------------------------------------
(* C15: cursor invariant.  After any sequence of write_byte and            *)
(* write_string calls from the initial state the column is in 0 .. width.  *)
C15_CursorInRange ==
    /\ writer.column_position >= 0
    /\ writer.column_position <= BUFFER_WIDTH

C15_Witness ==
    /\ calls = 2
    /\ op = "write_string"
    /\ writer.column_position = BUFFER_WIDTH
    /\ pre.column_position = BUFFER_WIDTH
    /\ writer.shifts = 1

----------------------------------------------------------------------------
(* C16: line shift.  After a line shift (write_byte of a newline) every    *)
(* row r >= 1 has moved to row r-1 cell by cell, the bottom row is blanks  *)
(* in the current colour, and the column is 0; the former top row is not   *)
(* kept anywhere unless a row below it was equal to it.                    *)
WasLineShift == op = "write_byte" /\ arg = <<10>>

C16_LineShift ==
    WasLineShift
    => /\ \A r \in Rows : \A c \in Cols :
            r >= 1 => writer.buffer[r - 1][c] = pre.buffer[r][c]
       /\ \A c \in Cols :
            writer.buffer[BottomRow][c] = ScreenChar(32, pre.current_color)
       /\ writer.column_position = 0
       /\ writer.current_color = pre.current_color
       /\ writer.shifts = 1

C16_Witness ==
    /\ WasLineShift
    /\ calls = 2
    /\ pre.column_position = 1
    /\ pre.buffer[BottomRow][0].ascii_char = 64 + BUFFER_WIDTH + 1
    /\ pre.buffer[BUFFER_HEIGHT - 2][0].ascii_char = 65
    /\ writer.buffer[BUFFER_HEIGHT - 2][0].ascii_char = 64 + BUFFER_WIDTH + 1
    /\ writer.buffer[BUFFER_HEIGHT - 3][0].ascii_char = 65
    /\ ~IsBlank(pre.buffer[0][0])

----------------------------------------------------------------------------
(* C17: no out-of-range access.  No call indexes the buffer outside its    *)
(* rows and columns: the Writer never panics, and the column a character   *)
(* was stored at is below the width.                                       *)
C17_InRange ==
    /\ ~writer.panicked
    /\ (arg # <<>> /\ arg[Len(arg)] # 10) => writer.column_position - 1 \in Cols
    /\ DOMAIN writer.buffer = Rows
    /\ \A r \in Rows : DOMAIN writer.buffer[r] = Cols

C17_Witness ==
    /\ calls = 2
    /\ op = "write_string"
    /\ Len(arg) = MaxLen
    /\ pre.column_position = BUFFER_WIDTH
    /\ writer.shifts = 3
    /\ ~writer.panicked

----------------------------------------------------------------------------
(* C18: frame of a plain store.  write_byte of a non-newline byte with     *)
(* column < width changes the one cell at (bottom row, column) and nothing *)
(* else of the buffer, nor the colour; and whatever the call, the rows     *)
(* above the bottom row are as before unless a line shift took place.      *)
C18_Frame ==
    /\ (WroteOneByte /\ pre.column_position < BUFFER_WIDTH)
       => /\ SameBufferExcept(BottomRow, pre.column_position)
          /\ writer.buffer[BottomRow][pre.column_position] =
                ScreenChar(arg[1], pre.current_color)
          /\ writer.current_color = pre.current_color
          /\ writer.column_position = pre.column_position + 1
          /\ writer.shifts = 0
    /\ writer.shifts = 0
       => \A r \in Rows : r # BottomRow => writer.buffer[r] = pre.buffer[r]

C18_Witness ==
    /\ WroteOneByte /\ arg = <<255>>
    /\ pre.column_position = BUFFER_WIDTH - 1
    /\ calls = 2
    /\ writer.buffer[BottomRow][BUFFER_WIDTH - 1].ascii_char = 255
    /\ writer.buffer[BottomRow][0].ascii_char = 65

----------------------------------------------------------------------------
(* C20: split independence.  Writing a text in one write_string call       *)
(* leaves the state that writing any prefix and then the rest leaves, and  *)
(* the state that write_byte leaves when called on each byte in order,     *)
(* bytes outside 0x20..0x7E other than newline replaced by 0xFE.           *)
Substituted(b) == IF Printable(b) \/ b = 10 THEN b ELSE 254

RECURSIVE EachByte(_, _, _)
EachByte(w, s, k) ==
    IF k > Len(s) THEN w ELSE EachByte(write_byte(w, Substituted(s[k])), s, k + 1)

C20_SplitIndependent ==
    op = "write_string"
    => /\ \A k \in 0 .. Len(arg) :
            write_string(write_string(pre, SubSeq(arg, 1, k)),
                         SubSeq(arg, k + 1, Len(arg))) = writer
       /\ EachByte(pre, arg, 1) = writer

C20_Witness ==
    /\ op = "write_string"
    /\ calls = 2
    /\ Len(arg) = MaxLen
    /\ pre.column_position = BUFFER_WIDTH
    /\ write_string(write_string(pre, SubSeq(arg, 1, BUFFER_WIDTH)),
                    SubSeq(arg, BUFFER_WIDTH + 1, Len(arg))) = writer

----------------------------------------------------------------------------
(* C9: many lines.                                                         *)

(* Row r shows the text s from column 0 on, followed by blanks. *)
RowShows(r, s) ==
    \A c \in Cols :
        writer.buffer[r][c].ascii_char = IF c < Len(s) THEN s[c + 1] ELSE 32

(* C9 as stated: once more lines than the buffer has rows were written,    *)
(* the bottom row holds the content of the line written last.              *)
C9_AsStated ==
    (op = "println" /\ calls > BUFFER_HEIGHT /\ Len(arg) <= BUFFER_WIDTH)
    => RowShows(BottomRow, arg)

(* C9 as amended: after N newline-terminated lines, N >= 2 and so also    *)
(* when N exceeds the buffer height, the content of the line written last  *)
(* is on row BUFFER_HEIGHT-2 (when it fits the width) and the bottom row   *)
(* is blank; no cell holds a character of a line older than the last       *)
(* BUFFER_HEIGHT-1 lines, and no row holds a line older than its distance  *)
(* from row BUFFER_HEIGHT-2.                                               *)
C9_ManyLines ==
    (op = "println" /\ calls >= 2)
    => /\ Len(arg) <= BUFFER_WIDTH => RowShows(BUFFER_HEIGHT - 2, arg)
       /\ RowShows(BottomRow, <<>>)
       /\ \A r \in Rows : \A c \in Cols :
            writer.origin[r][c].by = "println"
                => /\ writer.origin[r][c].n > calls - (BUFFER_HEIGHT - 1)
                   /\ writer.origin[r][c].n >= calls - (BUFFER_HEIGHT - 2 - r)
       /\ \A c \in Cols :
            writer.origin[BUFFER_HEIGHT - 2][c].by = "println"
                => writer.origin[BUFFER_HEIGHT - 2][c].n = calls

C9_Witness ==
    /\ op = "println"
    /\ calls = BUFFER_HEIGHT + 1
    /\ arg = Letters(BUFFER_WIDTH)
    /\ \A r \in 0 .. (BUFFER_HEIGHT - 2) :
          writer.origin[r][0] = Tag("println", calls - (BUFFER_HEIGHT - 2 - r))

====
